---- MODULE Spec2Model ----
(***************************************************************************)
(* Model of the log-forwarding Function App (src/func-app/function_app.py): *)
(* the event classifier determine_log_type, the signed request builder     *)
(* post_to_law and the three HTTP handlers.                                 *)
(*                                                                         *)
(* Python strings that the code inspects (lower(), startswith(), `in`) are *)
(* sequences of one-character strings, so that the string operations are   *)
(* computed.  A JSON value is a record [t, s, n]: its type tag, its        *)
(* characters when it is a string, its number when it is a number or a     *)
(* boolean (Python's True is 1).  A JSON object is a function from its     *)
(* keys to JSON values.                                                    *)
(***************************************************************************)
EXTENDS Integers, Sequences, FiniteSets, TLC

VARIABLES
    WS_ID,      \* module global WS_ID: LOG_ANALYTICS_WORKSPACE_ID of the environment
    WS_KEY,     \* module global WS_KEY: LOG_ANALYTICS_PRIMARY_KEY of the environment
    req,        \* the invocation of a handler that is being served
    cls,        \* one call of determine_log_type: its argument and its outcome
    sig,        \* two runs of the signing steps of post_to_law, side by side
    conc,       \* the invocations that worker threads serve at the same time
    sim,        \* the event simulator (src/api_simulator.py): one event on its way
    run,        \* one call of MultiAPIEventSimulator.run_simulation
    suite       \* one call of PipelineTestSuite.run_all_tests

vars == <<WS_ID, WS_KEY, req, cls, sig, conc, sim, run, suite>>

-----------------------------------------------------------------------------
(* Python strings *)

UpperCase == <<"A","B","C","D","E","F","G","H","I","J","K","L","M",
               "N","O","P","Q","R","S","T","U","V","W","X","Y","Z">>
LowerCase == <<"a","b","c","d","e","f","g","h","i","j","k","l","m",
               "n","o","p","q","r","s","t","u","v","w","x","y","z">>

LowerChar(c) ==
    IF \E i \in 1..Len(UpperCase) : UpperCase[i] = c
    THEN LowerCase[CHOOSE i \in 1..Len(UpperCase) : UpperCase[i] = c]
    ELSE c

\* str.lower()
lower(s) == [i \in 1..Len(s) |-> LowerChar(s[i])]

\* s.startswith(p)
startswith(s, p) == Len(p) <= Len(s) /\ SubSeq(s, 1, Len(p)) = p

\* p in s, for two strings
contains(p, s) ==
    \E k \in 0..(Len(s) - Len(p)) : SubSeq(s, k + 1, k + Len(p)) = p

\* The string literals of determine_log_type.
s_mulesoft   == <<"m","u","l","e","s","o","f","t">>
s_MuleSoft   == <<"M","u","l","e","S","o","f","t">>
s_salesforce == <<"s","a","l","e","s","f","o","r","c","e">>
s_Login      == <<"L","o","g","i","n">>
s_API_Usage  == <<"A","P","I","_","U","s","a","g","e">>
s_Data_Modification ==
    <<"D","a","t","a","_","M","o","d","i","f","i","c","a","t","i","o","n">>

\* Further strings that inbound records carry.
s_MULESOFT       == <<"M","U","L","E","S","O","F","T">>
s_MuleSoft_EU    == <<"M","u","l","e","S","o","f","t","-","E","U">>
s_Salesforce     == <<"S","a","l","e","s","f","o","r","c","e">>
s_MySalesForceOrg == <<"M","y","S","a","l","e","s","F","o","r","c","e","O","r","g">>
s_SAP            == <<"S","A","P">>
s_MuleSoft_Error == <<"M","u","l","e","S","o","f","t","_","E","r","r","o","r">>
s_mulesoft_error == <<"m","u","l","e","s","o","f","t","_","e","r","r","o","r">>
s_PageView       == <<"P","a","g","e","V","i","e","w">>
s_login          == <<"l","o","g","i","n">>
s_bar            == <<"b","a","r">>
s_baz            == <<"b","a","z">>
s_503            == <<"5","0","3">>

-----------------------------------------------------------------------------
(* JSON values *)

JStr(s)  == [t |-> "str",  s |-> s,    n |-> 0]
JNum(n)  == [t |-> "num",  s |-> <<>>, n |-> n]
JBool(b) == [t |-> "bool", s |-> <<>>, n |-> IF b THEN 1 ELSE 0]
JNull    == [t |-> "null", s |-> <<>>, n |-> 0]

\* A float, by the text repr() writes and its integer part; a nested object,
\* by its JSON text.
JFloat(text, floor) == [t |-> "float", s |-> text, n |-> floor]
JObj(text)          == [t |-> "obj",   s |-> text, n |-> 0]

\* The values that Python compares with an int: int, bool and float.
IsNumber(v) == v.t \in {"num", "bool", "float"}

EmptyRec == <<>>

\* dict.get(key, default)
get(d, k, default) == IF k \in DOMAIN d THEN d[k] ELSE default

\* The records with key k absent or set to one of vals.
Opt(k, vals) == {EmptyRec} \cup {k :> v : v \in vals}

-----------------------------------------------------------------------------
(* determine_log_type *)

Categories == {"SalesforceEvent", "MuleSoftPerformance", "MuleSoftError",
               "MuleSoftUptime", "MuleSoftGeneral", "GeneralEvent"}

\* The exceptions that escape determine_log_type.
Exceptions == {"AttributeError", "TypeError"}

\* The MuleSoft branch with the error test ahead of the performance test.
MuleSoftBranch_ErrorFirst(event_data) ==
    LET sc == get(event_data, "statusCode", JNum(0)) IN
    IF "error" \in DOMAIN event_data \/ (IsNumber(sc) /\ sc.n >= 400)
    THEN "MuleSoftError"
    ELSE IF "latency" \in DOMAIN event_data \/ "responseTime" \in DOMAIN event_data
    THEN "MuleSoftPerformance"
    ELSE IF "uptime" \in DOMAIN event_data \/ "availability" \in DOMAIN event_data
    THEN "MuleSoftUptime"
    ELSE "MuleSoftGeneral"

\* The MuleSoft branch reading statusCode without a default:
\* event_data.get('statusCode') >= 400 raises TypeError for a record that
\* has none.
MuleSoftBranch_NoStatusDefault(event_data) ==
    IF "latency" \in DOMAIN event_data \/ "responseTime" \in DOMAIN event_data
    THEN "MuleSoftPerformance"
    ELSE IF "error" \in DOMAIN event_data
    THEN "MuleSoftError"
    ELSE LET sc == get(event_data, "statusCode", JNull) IN
         IF ~IsNumber(sc) THEN "TypeError"
         ELSE IF sc.n >= 400 THEN "MuleSoftError"
         ELSE IF "uptime" \in DOMAIN event_data \/ "availability" \in DOMAIN event_data
         THEN "MuleSoftUptime"
         ELSE "MuleSoftGeneral"

\* The MuleSoft branch, lines 60-67.  statusCode is compared with >= only
\* when there is no error key; the comparison of a str or None with an int
\* raises TypeError.
MuleSoftBranch(event_data) ==
    IF "latency" \in DOMAIN event_data \/ "responseTime" \in DOMAIN event_data
    THEN "MuleSoftPerformance"
    ELSE IF "error" \in DOMAIN event_data
    THEN "MuleSoftError"
    ELSE LET sc == get(event_data, "statusCode", JNum(0)) IN
         IF ~IsNumber(sc) THEN "TypeError"
         ELSE IF sc.n >= 400 THEN "MuleSoftError"
         ELSE IF "uptime" \in DOMAIN event_data \/ "availability" \in DOMAIN event_data
         THEN "MuleSoftUptime"
         ELSE "MuleSoftGeneral"

\* Lines 55-75.  .lower() of a non-string sourceSystem raises AttributeError;
\* `or` evaluates event_type.startswith only when source_system is not
\* 'mulesoft', and that raises AttributeError for a non-string eventType.
determine_log_type(event_data) ==
    LET event_type == get(event_data, "eventType", JStr(<<>>))
        ss         == get(event_data, "sourceSystem", JStr(<<>>))
    IN  IF ss.t # "str" THEN "AttributeError"
        ELSE LET source_system == lower(ss.s) IN
             IF source_system = s_mulesoft
             THEN MuleSoftBranch(event_data)
             ELSE IF event_type.t # "str" THEN "AttributeError"
             ELSE IF startswith(event_type.s, s_MuleSoft)
             THEN MuleSoftBranch(event_data)
             ELSE IF \/ contains(s_salesforce, source_system)
                     \/ event_type.s \in {s_Login, s_API_Usage, s_Data_Modification}
             THEN "SalesforceEvent"
             ELSE "GeneralEvent"

-----------------------------------------------------------------------------
(* The records that the classifier is run on *)

EventTypeValues ==
    {JStr(s_Login), JStr(s_API_Usage), JStr(s_Data_Modification),
     JStr(s_MuleSoft_Error), JStr(s_mulesoft_error), JStr(s_PageView),
     JStr(s_login), JNull, JNum(7)}

SourceSystemValues ==
    {JStr(s_MuleSoft), JStr(s_mulesoft), JStr(s_MULESOFT), JStr(s_MuleSoft_EU),
     JStr(s_Salesforce), JStr(s_MySalesForceOrg), JStr(s_SAP), JNull, JNum(7)}

StatusCodeValues ==
    {JNum(200), JNum(399), JNum(400), JNum(503), JStr(s_503), JNull, JBool(TRUE)}

ClassifyRecords ==
    {et @@ ss @@ sc @@ la @@ rt @@ er @@ up @@ av @@ foo :
        et  \in Opt("eventType", EventTypeValues),
        ss  \in Opt("sourceSystem", SourceSystemValues),
        sc  \in Opt("statusCode", StatusCodeValues),
        la  \in Opt("latency", {JNum(120)}),
        rt  \in Opt("responseTime", {JNum(250)}),
        er  \in Opt("error", {JStr(s_bar)}),
        up  \in Opt("uptime", {JNum(99)}),
        av  \in Opt("availability", {JNum(99)}),
        foo \in Opt("foo", {JStr(s_bar)})}

MaxCalls == 2    \* calls of determine_log_type on one record

ClsIdle == [event_data |-> EmptyRec, called |-> FALSE, result |-> "", calls |-> 0]

\* The record after a classifier that begins with
\* event_data.setdefault('sourceSystem', '').
event_data_after_SetDefault(event_data) ==
    IF "sourceSystem" \in DOMAIN event_data THEN event_data
    ELSE event_data @@ ("sourceSystem" :> JStr(<<>>))

\* The record after determine_log_type(event_data), lines 53-75: the
\* function calls get() and `in` on it and assigns to nothing but its own
\* locals event_type and source_system.
event_data_after(event_data) == event_data

\* One call determine_log_type(event_data): the outcome is the category
\* returned or the exception raised.  The same record may be classified
\* again.
Classify ==
    /\ cls.calls < MaxCalls
    /\ cls' = [cls EXCEPT !.called = TRUE,
                          !.calls = @ + 1,
                          !.result = determine_log_type(cls.event_data),
                          !.event_data = event_data_after(cls.event_data)]
    /\ UNCHANGED <<WS_ID, WS_KEY, req, sig, conc, sim, run, suite>>

-----------------------------------------------------------------------------
(* post_to_law: serialisation, timestamp, string-to-sign, signature *)

MaxSec  == 1    \* clock readings: whole seconds 0..MaxSec
MaxUsec == 1    \* clock readings: microseconds 0..MaxUsec

\* The values datetime.datetime.utcnow() returns.
Times == [sec : 0..MaxSec, usec : 0..MaxUsec]

Digits == <<"0","1","2","3","4","5","6","7","8","9">>

\* str(n) of a natural number, as characters.
RECURSIVE Decimal(_)
Decimal(n) == IF n < 10 THEN <<Digits[n + 1]>>
              ELSE Decimal(n \div 10) \o <<Digits[(n % 10) + 1]>>

\* Characters outside ASCII are written by the name of their code point.
c_eacute == "U+00E9"
NonAscii == {c_eacute}

\* len() of a string given as pieces, each piece ASCII text of any length or
\* one character outside ASCII.
RECURSIVE StrLen(_)
StrLen(pieces) ==
    IF pieces = <<>> THEN 0
    ELSE IF Len(pieces) = 1
    THEN (IF pieces[1] \in NonAscii THEN 1 ELSE Len(pieces[1]))
    ELSE LET half == Len(pieces) \div 2
         IN  StrLen(SubSeq(pieces, 1, half))
             + StrLen(SubSeq(pieces, half + 1, Len(pieces)))

\* The number of bytes requests.post puts on the wire for a str body, line
\* 46: one byte for each ASCII character; in UTF-8 a character of
\* U+0080..U+07FF takes two.
RECURSIVE ByteLen(_)
ByteLen(pieces) ==
    IF pieces = <<>> THEN 0
    ELSE IF Len(pieces) = 1
    THEN (IF pieces[1] \in NonAscii THEN 2 ELSE Len(pieces[1]))
    ELSE LET half == Len(pieces) \div 2
         IN  ByteLen(SubSeq(pieces, 1, half))
             + ByteLen(SubSeq(pieces, half + 1, Len(pieces)))

\* json.dumps escapes a character outside ASCII (ensure_ascii=True, the
\* default in line 22) as a backslash, u and four hexadecimal digits.
escape(c) == IF c = c_eacute THEN "\\u00e9" ELSE c

\* json.dumps of a str.  (The strings of the model hold no quote, backslash
\* or control character.)
dumps_str(s) == <<"\"">> \o [i \in 1..Len(s) |-> escape(s[i])] \o <<"\"">>

\* The order in which the keys of an object are written.  (Python writes
\* them in insertion order; the order does not change the length.)
KeyOrder == <<"eventType", "sourceSystem", "timestamp", "statusCode", "latency",
              "responseTime", "error", "uptime", "availability", "foo",
              "eventId", "userId", "username", "loginType", "sourceIp", "country",
              "browser", "platform", "success", "sessionId", "failureReason",
              "apiEndpoint", "httpMethod", "recordsProcessed", "apiVersion",
              "clientApplication", "sobjectType", "action", "recordId",
              "fieldsModified", "oldValues", "newValues", "apiName", "environment",
              "applicationName", "throughput", "memoryUsage", "cpuUsage",
              "errorType", "errorMessage", "retryAttempts", "totalRequests",
              "successfulRequests", "failedRequests", "avgResponseTime",
              "monitoringPeriod">>

\* json.dumps of one value with ensure_ascii=False: strings are written raw.
dumps_value_Raw(v) ==
    CASE v.t = "str"  -> <<"\"">> \o v.s \o <<"\"">>
      [] v.t = "num"  -> Decimal(v.n)
      [] v.t = "bool" -> IF v.n = 1 THEN <<"true">> ELSE <<"false">>
      [] v.t \in {"float", "obj"} -> v.s
      [] OTHER        -> <<"null">>

\* json.dumps of one value.
dumps_value(v) ==
    CASE v.t = "str"  -> dumps_str(v.s)
      [] v.t = "num"  -> Decimal(v.n)
      [] v.t = "bool" -> IF v.n = 1 THEN <<"true">> ELSE <<"false">>
      [] v.t \in {"float", "obj"} -> v.s
      [] OTHER        -> <<"null">>

RECURSIVE dumps_items(_, _, _)
dumps_items(d, i, first) ==
    IF i > Len(KeyOrder) THEN <<>>
    ELSE IF KeyOrder[i] \notin DOMAIN d THEN dumps_items(d, i + 1, first)
    ELSE (IF first THEN <<>> ELSE <<", ">>)
         \o <<"\"", KeyOrder[i], "\"", ": ">> \o dumps_value(d[KeyOrder[i]])
         \o dumps_items(d, i + 1, FALSE)

\* json.dumps(body), line 22: default separators ", " and ": ".
json_dumps(body) == <<"{">> \o dumps_items(body, 1, TRUE) \o <<"}">>

\* strftime("%a, %d %b %Y %H:%M:%S GMT"), line 23: the microseconds of the
\* reading are dropped.
strftime(now) == <<"day ">> \o Decimal(now.sec) \o <<" GMT">>

\* datetime.isoformat(): the microseconds are written unless they are 0.
isoformat(now) == IF now.usec = 0 THEN Decimal(now.sec)
                  ELSE Decimal(now.sec) \o <<".">> \o Decimal(now.usec)

\* The string-to-sign without its x-ms-date line.
string_to_hash_NoDate(body_json, ts) ==
    <<"POST", "\n">> \o Decimal(StrLen(body_json))
    \o <<"\n", "application/json", "\n", "/api/logs">>

\* Lines 25-31.
string_to_hash(body_json, ts) ==
    <<"POST", "\n">> \o Decimal(StrLen(body_json))
    \o <<"\n", "application/json", "\n", "x-ms-date:">> \o ts
    \o <<"\n", "/api/logs">>

B64Alphabet ==
    <<"A","B","C","D","E","F","G","H","I","J","K","L","M","N","O","P",
      "Q","R","S","T","U","V","W","X","Y","Z","a","b","c","d","e","f",
      "g","h","i","j","k","l","m","n","o","p","q","r","s","t","u","v",
      "w","x","y","z","0","1","2","3","4","5","6","7","8","9","+","/">>

B64Index(c) == (CHOOSE i \in 1..Len(B64Alphabet) : B64Alphabet[i] = c) - 1

\* One group of four base64 characters, with "=" padding at its end.
DecodeGroup(g) ==
    LET i1 == B64Index(g[1])
        i2 == B64Index(g[2])
        b1 == (i1 * 4 + (i2 \div 16)) % 256
    IN  IF g[3] = "=" THEN <<b1>>
        ELSE LET i3 == B64Index(g[3])
                 b2 == ((i2 % 16) * 16 + (i3 \div 4)) % 256
             IN  IF g[4] = "=" THEN <<b1, b2>>
                 ELSE <<b1, b2, ((i3 % 4) * 64 + B64Index(g[4])) % 256>>

\* base64.b64decode(WS_KEY), line 32, of well-formed base64.
RECURSIVE b64decode(_)
b64decode(s) == IF Len(s) < 4 THEN <<>>
                ELSE DecodeGroup(SubSeq(s, 1, 4)) \o b64decode(SubSeq(s, 5, Len(s)))

\* hmac.new(key, msg, sha256).digest(): a function of the key bytes and the
\* message, taken to be injective.
hmac_sha256(key, msg) == [key |-> key, msg |-> msg]

\* base64.b64encode(digest).decode(): injective.
b64encode(digest) == [b64 |-> digest]

NoSignature == b64encode(hmac_sha256(<<>>, <<>>))

\* The Authorization header, line 39: f"SharedKey {WS_ID}:{signature}".
Authorization(ws_id, signature) == <<"SharedKey ">> \o ws_id \o <<":">> \o <<signature>>

\* The signing steps with the string-to-sign carrying the full clock reading
\* in place of the x-ms-date text.
SigningSteps_SignsClock(body, now, ws_key) ==
    LET body_json == json_dumps(body)
        sts       == string_to_hash(body_json, isoformat(now))
    IN  [body_json      |-> body_json,
         ts             |-> strftime(now),
         string_to_hash |-> sts,
         decoded_key    |-> b64decode(ws_key),
         signature      |-> b64encode(hmac_sha256(b64decode(ws_key), sts))]

\* The signing steps of post_to_law, lines 22-35, for a body, a clock
\* reading and the text of the shared key.
SigningSteps(body, now, ws_key) ==
    LET body_json == json_dumps(body)
        ts        == strftime(now)
        sts       == string_to_hash(body_json, ts)
    IN  [body_json      |-> body_json,
         ts             |-> ts,
         string_to_hash |-> sts,
         decoded_key    |-> b64decode(ws_key),
         signature      |-> b64encode(hmac_sha256(b64decode(ws_key), sts))]

NotSigned == [body_json |-> <<>>, ts |-> <<>>, string_to_hash |-> <<>>,
              decoded_key |-> <<>>, signature |-> NoSignature]

\* Shared keys: the first two are base64 texts of the same two bytes.
k_QUI == <<"Q","U","I","=">>
k_QUJ == <<"Q","U","J","=">>
k_QUM == <<"Q","U","M","=">>
KeyTexts == {k_QUI, k_QUJ, k_QUM}

SignBodies ==
    {("foo" :> JStr(s_bar)),
     ("foo" :> JStr(s_baz)),
     ("foo" :> JStr(s_bar)) @@ ("statusCode" :> JNum(503)),
     ("eventType" :> JStr(s_Login)) @@ ("statusCode" :> JNum(200))}

SignInputs == [body : SignBodies, now : Times, key : KeyTexts]

\* Workspace ids.
s_ws1 == <<"w","s","1">>
s_ws2 == <<"w","s","2">>

NoPost == [url |-> <<>>, data |-> <<>>, Authorization |-> <<>>,
           LogType |-> "", xmsdate |-> <<>>, ContentType |-> ""]

\* The request with the Log-Type appended to what is signed.
OutboundRequest_SignsLogType(ws_id, s, log_type) ==
    [url  |-> <<"https://">> \o ws_id
              \o <<".ods.opinsights.azure.com/api/logs?api-version=2016-04-01">>,
     data |-> s.body_json,
     Authorization |->
         Authorization(ws_id, b64encode(hmac_sha256(s.decoded_key,
                                  s.string_to_hash \o <<"\n", log_type>>))),
     LogType |-> log_type, xmsdate |-> s.ts,
     ContentType |-> "application/json"]

\* The request that post_to_law hands to requests.post, lines 37-46, for the
\* outcome s of the signing steps: url, body and the four headers.
OutboundRequest(ws_id, s, log_type) ==
    [url  |-> <<"https://">> \o ws_id
              \o <<".ods.opinsights.azure.com/api/logs?api-version=2016-04-01">>,
     data |-> s.body_json,
     Authorization |-> Authorization(ws_id, s.signature),
     LogType |-> log_type, xmsdate |-> s.ts,
     ContentType |-> "application/json"]

\* The workspace and the category a request is built for.
SignTargets == [id : {s_ws1, s_ws2}, log_type : {"SalesforceEvent", "MuleSoftError"}]

SigIdle == [j \in {1, 2} |->
              [body |-> EmptyRec, now |-> [sec |-> 0, usec |-> 0], key |-> <<>>,
               id |-> s_ws1, log_type |-> "SalesforceEvent",
               done |-> FALSE, out |-> NotSigned, post |-> NoPost]]

\* Run j of the signing steps, and the request built from their outcome.
Sign(j) ==
    /\ ~sig[j].done
    /\ LET s == SigningSteps(sig[j].body, sig[j].now, sig[j].key) IN
       sig' = [sig EXCEPT ![j].done = TRUE,
                          ![j].out  = s,
                          ![j].post = OutboundRequest(sig[j].id, s, sig[j].log_type)]
    /\ UNCHANGED <<WS_ID, WS_KEY, req, cls, conc, sim, run, suite>>

-----------------------------------------------------------------------------
(* The environment and the inbound requests *)

\* os.environ.get(name): None when the variable is unset, else its text.
EnvUnset  == [set |-> FALSE, v |-> <<>>]
EnvVal(s) == [set |-> TRUE, v |-> s]

\* `not x` for such a value: None and "" are false.
Missing(e) == ~e.set \/ e.v = <<>>

WsIdValues  == {EnvUnset, EnvVal(<<>>), EnvVal(s_ws1)}
WsKeyValues == {EnvUnset, EnvVal(<<>>), EnvVal(k_QUI)}

\* What req.get_json() yields: it raises ValueError for a body that is not
\* JSON (kind "invalid"), and otherwise returns the parsed value.
Unparseable  == [kind |-> "invalid", truthy |-> FALSE, rec |-> EmptyRec]
JObject(r)   == [kind |-> "object",  truthy |-> DOMAIN r # {}, rec |-> r]
JOther(k, b) == [kind |-> k,         truthy |-> b, rec |-> EmptyRec]

s_T0 == <<"T","0">>
s_Cafe == <<"C","a","f",c_eacute>>

HandlerRecords ==
    {ts @@ ss @@ et @@ sc @@ rt :
        ts \in Opt("timestamp", {JStr(s_T0)}),
        ss \in Opt("sourceSystem", {JStr(s_MuleSoft), JStr(s_Salesforce), JNull}),
        et \in Opt("eventType", {JStr(s_Login), JStr(s_MuleSoft_Error), JStr(s_Cafe),
                                   JNull}),
        sc \in Opt("statusCode", {JNum(503), JStr(s_503)}),
        rt \in Opt("responseTime", {JNum(250)})}

\* Non-object JSON values: [], "", 0, false, null (all false in Python) and
\* [1], "abc", 5, true.
Inbound ==
    {Unparseable} \cup {JObject(r) : r \in HandlerRecords}
    \cup {JOther(k, FALSE) : k \in {"array", "string", "number", "bool", "null"}}
    \cup {JOther(k, TRUE) : k \in {"array", "string", "number", "bool"}}

Handlers == {"salesforceLogHandler", "mulesoftLogHandler", "universalLogHandler"}

\* resp.status_code of the collection endpoint, and the subclasses of
\* requests.exceptions.RequestException that requests.post raises.
DownstreamStatus == {200, 201, 202, 204, 400, 403, 500, 503}
RequestExceptions == {"Timeout", "ConnectionError"}

-----------------------------------------------------------------------------
(* One invocation of a handler *)

Idle == [pc         |-> "idle",
         handler    |-> "",
         inbound    |-> Unparseable,
         payload    |-> EmptyRec,     \* the dict after the defaulting lines
         defaulted  |-> FALSE,        \* the defaulting lines were executed
         classified |-> FALSE,        \* determine_log_type was called
         log_type   |-> "",
         signed     |-> FALSE,        \* a signature was computed
         out        |-> NotSigned,
         post       |-> NoPost,       \* the request given to requests.post
         posts      |-> 0,            \* calls of requests.post
         code       |-> 0,            \* what post_to_law returned
         text       |-> "",
         status     |-> 0,            \* status_code of the HttpResponse
         ok         |-> FALSE,        \* the success branch built the response
         post_exc   |-> "",           \* the exception requests.post raised
         raised     |-> ""]           \* the exception that left the handler

\* return func.HttpResponse(msg, status_code=400), lines 87 and 93.
BadRequest(r, msg) == [r EXCEPT !.pc = "done", !.status = 400, !.text = msg]

\* An exception leaves the handler: it returns no HttpResponse.
Raise(r, e) == [r EXCEPT !.pc = "done", !.raised = e]

\* The tail of a handler that takes every 2xx code of post_to_law for
\* success.
HandlerReturn_Any2xx(r, code, text) ==
    [r EXCEPT !.pc = "done", !.code = code, !.text = text,
              !.ok = (code \in 200..299),
              !.status = IF code \in 200..299 THEN 200 ELSE code]

\* The tail of every handler, lines 103-108 (135-142, 167-174).
HandlerReturn(r, code, text) ==
    [r EXCEPT !.pc = "done", !.code = code, !.text = text,
              !.ok = (code = 200),
              !.status = IF code = 200 THEN 200 ELSE code]

\* The request with its x-ms-date header taken from a second reading of the
\* clock, one second after the reading that was signed.
SendRequest_SecondReading(r, body, log_type, now) ==
    LET s == SigningSteps(body, now, WS_KEY.v) IN
    [r EXCEPT !.pc = "posting", !.signed = TRUE, !.out = s, !.posts = @ + 1,
              !.post = [url  |-> <<"https://">> \o WS_ID.v
                                 \o <<".ods.opinsights.azure.com/api/logs?api-version=2016-04-01">>,
                        data |-> s.body_json,
                        Authorization |-> Authorization(WS_ID.v, s.signature),
                        LogType |-> log_type,
                        xmsdate |-> strftime([now EXCEPT !.sec = @ + 1]),
                        ContentType |-> "application/json"]]

\* post_to_law from json.dumps to the call of requests.post, lines 22-46:
\* the request is signed and requests.post is called, which blocks.
SendRequest(r, body, log_type, now) ==
    LET s == SigningSteps(body, now, WS_KEY.v) IN
    [r EXCEPT !.pc = "posting", !.signed = TRUE, !.out = s, !.posts = @ + 1,
              !.post = OutboundRequest(WS_ID.v, s, log_type)]

\* post_to_law without the guard of lines 18-20.
post_to_law_NoGuard(r, body, log_type, now) == SendRequest(r, body, log_type, now)

\* post_to_law up to the call of requests.post, lines 18-46: without the
\* workspace id or key it returns (500, "Missing workspace configuration")
\* and the handler answers at once.
post_to_law(r, body, log_type, now) ==
    IF Missing(WS_ID) \/ Missing(WS_KEY)
    THEN HandlerReturn(r, 500, "Missing workspace configuration")
    ELSE SendRequest(r, body, log_type, now)

\* A handler without the timestamp default.
default_timestamp_Skip(payload, now) == payload

\* The sourceSystem default written over whatever the record holds.
default_sourceSystem_Overwrite(payload, name) ==
    [k \in DOMAIN payload \cup {"sourceSystem"} |->
        IF k = "sourceSystem" THEN JStr(name) ELSE payload[k]]

\* if 'timestamp' not in payload: payload['timestamp'] = utcnow().isoformat()
default_timestamp(payload, now) ==
    IF "timestamp" \in DOMAIN payload THEN payload
    ELSE payload @@ ("timestamp" :> JStr(isoformat(now)))

\* if 'sourceSystem' not in payload: payload['sourceSystem'] = name
default_sourceSystem(payload, name) ==
    IF "sourceSystem" \in DOMAIN payload THEN payload
    ELSE payload @@ ("sourceSystem" :> JStr(name))

\* The head of a handler that lets an empty value through.
Parse_AcceptEmpty(r) ==
    IF r.inbound.kind = "invalid" THEN BadRequest(r, "Invalid JSON")
    ELSE IF r.inbound.kind # "object" THEN Raise(r, "TypeError")
    ELSE r

\* The head of every handler, lines 84-93: the answer 400, or "" to go on.
\* A parsed value that is not a dict and not false makes the first
\* defaulting line raise TypeError (`in` on a number, item assignment on a
\* list or str).
Parse(r) ==
    IF r.inbound.kind = "invalid" THEN BadRequest(r, "Invalid JSON")
    ELSE IF ~r.inbound.truthy THEN BadRequest(r, "Empty or invalid JSON payload")
    ELSE IF r.inbound.kind # "object" THEN Raise(r, "TypeError")
    ELSE r

\* A handler that classifies: determine_log_type, then post_to_law.
ClassifyAndPost(r, payload, t2) ==
    LET log_type == determine_log_type(payload)
        r1 == [r EXCEPT !.payload = payload, !.defaulted = TRUE, !.classified = TRUE]
    IN  IF log_type \in Exceptions THEN Raise(r1, log_type)
        ELSE post_to_law([r1 EXCEPT !.log_type = log_type], payload, log_type, t2)

\* salesforceLogHandler with the call of determine_log_type that the other
\* two handlers make.
RunSalesforce_Classifies(r, t1, t2) ==
    LET p == Parse(r) IN
    IF p.pc = "done" THEN p
    ELSE ClassifyAndPost(r, default_sourceSystem(default_timestamp(r.inbound.rec, t1),
                                                 s_Salesforce), t2)

\* salesforceLogHandler, lines 80-101, for clock readings t1 and t2.
RunSalesforce(r, t1, t2) ==
    LET p == Parse(r) IN
    IF p.pc = "done" THEN p
    ELSE LET payload == default_sourceSystem(default_timestamp(r.inbound.rec, t1),
                                             s_Salesforce)
         IN  post_to_law([r EXCEPT !.payload = payload, !.defaulted = TRUE,
                                   !.log_type = "SalesforceEvent"],
                         payload, "SalesforceEvent", t2)

\* mulesoftLogHandler, lines 111-135.
RunMulesoft(r, t1, t2) ==
    LET p == Parse(r) IN
    IF p.pc = "done" THEN p
    ELSE ClassifyAndPost(r, default_sourceSystem(default_timestamp(r.inbound.rec, t1),
                                                 s_MuleSoft), t2)

\* universalLogHandler, lines 145-167.
RunUniversal(r, t1, t2) ==
    LET p == Parse(r) IN
    IF p.pc = "done" THEN p
    ELSE ClassifyAndPost(r, default_timestamp(r.inbound.rec, t1), t2)

\* The route of the Function App that serves a request, lines 79, 110, 144.
RunHandler(h, r, t1, t2) ==
    CASE h = "salesforceLogHandler" -> RunSalesforce(r, t1, t2)
      [] h = "mulesoftLogHandler"   -> RunMulesoft(r, t1, t2)
      [] h = "universalLogHandler"  -> RunUniversal(r, t1, t2)

Arrive(h, inbound) == [Idle EXCEPT !.handler = h, !.inbound = inbound]

\* utcnow() is read for the timestamp default and then for x-ms-date.
Later(t1, t2) == t1.sec < t2.sec \/ (t1.sec = t2.sec /\ t1.usec <= t2.usec)

salesforceLogHandler ==
    /\ req.pc = "idle"
    /\ \E inbound \in Inbound, t1 \in Times, t2 \in Times :
         /\ Later(t1, t2)
         /\ req' = RunSalesforce(Arrive("salesforceLogHandler", inbound), t1, t2)
    /\ UNCHANGED <<WS_ID, WS_KEY, cls, sig, conc, sim, run, suite>>

mulesoftLogHandler ==
    /\ req.pc = "idle"
    /\ \E inbound \in Inbound, t1 \in Times, t2 \in Times :
         /\ Later(t1, t2)
         /\ req' = RunMulesoft(Arrive("mulesoftLogHandler", inbound), t1, t2)
    /\ UNCHANGED <<WS_ID, WS_KEY, cls, sig, conc, sim, run, suite>>

universalLogHandler ==
    /\ req.pc = "idle"
    /\ \E inbound \in Inbound, t1 \in Times, t2 \in Times :
         /\ Later(t1, t2)
         /\ req' = RunUniversal(Arrive("universalLogHandler", inbound), t1, t2)
    /\ UNCHANGED <<WS_ID, WS_KEY, cls, sig, conc, sim, run, suite>>

\* The except branch with a second attempt in place of the return.
OnRequestException_Retry(r, e) == [r EXCEPT !.posts = @ + 1]

\* except RequestException with a raise in place of the return.
OnRequestException_Reraise(r, e) == Raise([r EXCEPT !.post_exc = e], e)

\* except RequestException, lines 49-51: post_to_law returns 500 and the
\* text of the error, and the handler answers.
OnRequestException(r, e) ==
    HandlerReturn([r EXCEPT !.post_exc = e], 500, "Error posting to Log Analytics: " \o e)

\* requests.post returns a response, lines 46-48: post_to_law returns its
\* status code and text, and the handler answers.
PostReturns ==
    /\ req.pc = "posting"
    /\ \E status_code \in DownstreamStatus :
         req' = HandlerReturn(req, status_code, "response text")
    /\ UNCHANGED <<WS_ID, WS_KEY, cls, sig, conc, sim, run, suite>>

\* requests.post raises (the 10 s timeout, a connection error).
PostRaises ==
    /\ req.pc = "posting"
    /\ \E e \in RequestExceptions : req' = OnRequestException(req, e)
    /\ UNCHANGED <<WS_ID, WS_KEY, cls, sig, conc, sim, run, suite>>

\* The invocation is over; the worker takes the next request.
NextInvocation ==
    /\ req.pc = "done"
    /\ req' = Idle
    /\ UNCHANGED <<WS_ID, WS_KEY, cls, sig, conc, sim, run, suite>>

-----------------------------------------------------------------------------
(* Invocations served at the same time *)

\* The threads of the worker's pool that run the handlers.
Workers == {"thread-1", "thread-2"}

ConcIdle == [w \in Workers |-> Idle]

\* Requests that arrive while another is being served.
ConcInbound ==
    {Unparseable,
     JObject(("eventType" :> JStr(s_Login))),
     JObject(("timestamp" :> JStr(s_T0)) @@ ("sourceSystem" :> JStr(s_MuleSoft))
             @@ ("responseTime" :> JNum(250)))}

ConcTimes == {[sec |-> 0, usec |-> 0], [sec |-> 0, usec |-> 1]}

\* The variables of an invocation written with payload and log_type kept in
\* module globals, which every invocation in flight then sees.
Locals_Global(c, w, r) ==
    [v \in DOMAIN c |->
        IF v = w THEN r
        ELSE IF c[v].pc = "posting"
        THEN [c[v] EXCEPT !.payload = r.payload, !.log_type = r.log_type]
        ELSE c[v]]

\* payload, log_type, code and text are locals of the handler function
\* (lines 84, 133, 135): a step of the invocation on thread w writes the
\* variables of that invocation only.
Locals(c, w, r) == [c EXCEPT ![w] = r]

ConcSalesforce(w) ==
    /\ conc[w].pc = "idle"
    /\ \E inbound \in ConcInbound, t1 \in ConcTimes, t2 \in ConcTimes :
         /\ Later(t1, t2)
         /\ conc' = Locals(conc, w,
                       RunSalesforce(Arrive("salesforceLogHandler", inbound), t1, t2))
    /\ UNCHANGED <<WS_ID, WS_KEY, req, cls, sig, sim, run, suite>>

ConcMulesoft(w) ==
    /\ conc[w].pc = "idle"
    /\ \E inbound \in ConcInbound, t1 \in ConcTimes, t2 \in ConcTimes :
         /\ Later(t1, t2)
         /\ conc' = Locals(conc, w,
                       RunMulesoft(Arrive("mulesoftLogHandler", inbound), t1, t2))
    /\ UNCHANGED <<WS_ID, WS_KEY, req, cls, sig, sim, run, suite>>

ConcUniversal(w) ==
    /\ conc[w].pc = "idle"
    /\ \E inbound \in ConcInbound, t1 \in ConcTimes, t2 \in ConcTimes :
         /\ Later(t1, t2)
         /\ conc' = Locals(conc, w,
                       RunUniversal(Arrive("universalLogHandler", inbound), t1, t2))
    /\ UNCHANGED <<WS_ID, WS_KEY, req, cls, sig, sim, run, suite>>

ConcPostReturns(w) ==
    /\ conc[w].pc = "posting"
    /\ \E status_code \in DownstreamStatus :
         conc' = Locals(conc, w, HandlerReturn(conc[w], status_code, "response text"))
    /\ UNCHANGED <<WS_ID, WS_KEY, req, cls, sig, sim, run, suite>>

ConcPostRaises(w) ==
    /\ conc[w].pc = "posting"
    /\ \E e \in RequestExceptions : conc' = Locals(conc, w, OnRequestException(conc[w], e))
    /\ UNCHANGED <<WS_ID, WS_KEY, req, cls, sig, sim, run, suite>>

ConcNextInvocation(w) ==
    /\ conc[w].pc = "done"
    /\ conc' = Locals(conc, w, Idle)
    /\ UNCHANGED <<WS_ID, WS_KEY, req, cls, sig, sim, run, suite>>

-----------------------------------------------------------------------------
(* The event simulator, src/api_simulator.py *)

s_MuleSoft_Performance ==
    <<"M","u","l","e","S","o","f","t","_","P","e","r","f","o","r","m","a","n","c","e">>
s_MuleSoft_Uptime == <<"M","u","l","e","S","o","f","t","_","U","p","t","i","m","e">>

\* str(uuid.uuid4()), and its first eight characters.
Uuid  == <<"1b4e28ba", "-2fa1-4d3b-a3f5-9c2d7e1f0a6b">>
Uuid8 == <<"1b4e28ba">>

\* The four fields every generator writes first, e.g. lines 57-60.
Header(event_type, source, now) ==
    ("eventType" :> JStr(event_type)) @@ ("sourceSystem" :> JStr(source))
    @@ ("timestamp" :> JStr(isoformat(now) \o <<"Z">>))
    @@ ("eventId" :> JStr(Uuid))

SourceIp == JStr(<<"10.20.30.40">>)

\* The status codes the generators draw from, lines 81, 151 and 161.
SfApiStatusCodes      == {200, 201, 400, 401, 403, 404, 500}
PerformanceStatusCodes == {200, 201, 202}
error_codes           == {400, 401, 403, 404, 429, 500, 502, 503, 504}

\* Lines 51-74.  The random draws that no code looks at are fixed to one of
\* their values.
generate_sf_login_event ==
    {Header(s_Login, s_Salesforce, now)
     @@ ("userId" :> JStr(<<"john.doe@company.com">>))
     @@ ("username" :> JStr(<<"john.doe@company.com">>))
     @@ ("loginType" :> JStr(<<"SAML SSO">>))
     @@ ("sourceIp" :> SourceIp)
     @@ ("country" :> JStr(<<"US">>))
     @@ ("browser" :> JStr(<<"Chrome">>))
     @@ ("platform" :> JStr(<<"Linux">>))
     @@ ("success" :> JBool(success))
     @@ ("sessionId" :> IF success THEN JStr(Uuid8) ELSE JNull)
     @@ ("failureReason" :> IF success THEN JNull ELSE JStr(<<"Account locked">>)) :
        now \in Times, success \in BOOLEAN}

\* Lines 76-99.
generate_sf_api_event ==
    {Header(s_API_Usage, s_Salesforce, now)
     @@ ("userId" :> JStr(<<"admin@company.com">>))
     @@ ("apiEndpoint" :> JStr(<<"/services/data/v58.0/query/">>))
     @@ ("httpMethod" :> JStr(<<"GET">>))
     @@ ("statusCode" :> JNum(status_code))
     @@ ("responseTime" :> JNum(250))
     @@ ("recordsProcessed" :> JNum(40))
     @@ ("apiVersion" :> JStr(<<"v58.0">>))
     @@ ("clientApplication" :> JStr(<<"Data Loader">>))
     @@ ("sourceIp" :> SourceIp) :
        now \in Times, status_code \in SfApiStatusCodes}

\* Lines 101-120.
generate_sf_data_event ==
    {Header(s_Data_Modification, s_Salesforce, now)
     @@ ("userId" :> JStr(<<"sales.rep@company.com">>))
     @@ ("sobjectType" :> JStr(<<"Lead">>))
     @@ ("action" :> JStr(<<"Update">>))
     @@ ("recordId" :> JStr(<<"0123456789ABCDE">>))
     @@ ("fieldsModified" :> JNum(3))
     @@ ("oldValues" :> IF old THEN JObj(<<"{\"Status\": \"New\", \"Amount\": 1000}">>)
                        ELSE JObj(<<"{}">>))
     @@ ("newValues" :> IF new THEN JObj(<<"{\"Status\": \"Qualified\", \"Amount\": 1500}">>)
                        ELSE JObj(<<"{}">>)) :
        now \in Times, old \in BOOLEAN, new \in BOOLEAN}

\* The fields that name the API, lines 142-146 (174-178, 205-209).
ApiFields(env) ==
    ("apiName" :> JStr(<<"Order API">>))
    @@ ("apiEndpoint" :> JStr(<<"/api/orders">>))
    @@ ("apiVersion" :> JStr(<<"v1.3">>))
    @@ ("environment" :> JStr(env))
    @@ ("applicationName" :> JStr(<<"data-sync">>))

\* Lines 124-153.
generate_mulesoft_performance_event ==
    {Header(s_MuleSoft_Performance, s_MuleSoft, now)
     @@ ApiFields(<<"PROD">>)
     @@ ("responseTime" :> JNum(150))
     @@ ("throughput" :> JNum(120))
     @@ ("memoryUsage" :> JFloat(<<"63.27">>, 63))
     @@ ("cpuUsage" :> JFloat(<<"41.5">>, 41))
     @@ ("statusCode" :> JNum(status_code)) :
        now \in Times, status_code \in PerformanceStatusCodes}

\* Lines 155-186.
generate_mulesoft_error_event ==
    {Header(s_MuleSoft_Error, s_MuleSoft, now)
     @@ ApiFields(<<"TEST">>)
     @@ ("statusCode" :> JNum(status_code))
     @@ ("errorType" :> JStr(<<"TIMEOUT">>))
     @@ ("errorMessage" :> JStr(<<"API error occurred: ">> \o Decimal(status_code)))
     @@ ("responseTime" :> JNum(5000))
     @@ ("retryAttempts" :> JNum(2))
     @@ ("sourceIp" :> SourceIp) :
        now \in Times, status_code \in error_codes}

\* The uptime event without its eventId.
generate_mulesoft_uptime_event_NoId ==
    {("eventType" :> JStr(s_MuleSoft_Uptime)) @@ ("sourceSystem" :> JStr(s_MuleSoft))
     @@ ("timestamp" :> JStr(isoformat(now) \o <<"Z">>))
     @@ ApiFields(<<"PROD">>)
     @@ ("availability" :> JFloat(<<"99.5">>, 99))
     @@ ("uptime" :> JFloat(<<"99.5">>, 99)) :
        now \in Times}

\* Lines 188-218: uptime is drawn from 99.0..99.99 for PROD and from
\* 95.0..99.5 otherwise.
generate_mulesoft_uptime_event ==
    {Header(s_MuleSoft_Uptime, s_MuleSoft, now)
     @@ ApiFields(env)
     @@ ("availability" :> IF env = <<"PROD">> THEN JFloat(<<"99.5">>, 99)
                           ELSE JFloat(<<"96.125">>, 96))
     @@ ("uptime" :> IF env = <<"PROD">> THEN JFloat(<<"99.5">>, 99)
                     ELSE JFloat(<<"96.125">>, 96))
     @@ ("totalRequests" :> JNum(20000))
     @@ ("successfulRequests" :> JNum(19000))
     @@ ("failedRequests" :> JNum(12))
     @@ ("avgResponseTime" :> JNum(180))
     @@ ("monitoringPeriod" :> JStr(<<"1h">>)) :
        now \in Times, env \in {<<"PROD">>, <<"DEV">>}}

\* The six generators of MultiAPIEventSimulator.
Generators ==
    {"generate_sf_login_event", "generate_sf_api_event", "generate_sf_data_event",
     "generate_mulesoft_performance_event", "generate_mulesoft_error_event",
     "generate_mulesoft_uptime_event"}

Generated(g) ==
    CASE g = "generate_sf_login_event"             -> generate_sf_login_event
      [] g = "generate_sf_api_event"               -> generate_sf_api_event
      [] g = "generate_sf_data_event"              -> generate_sf_data_event
      [] g = "generate_mulesoft_performance_event" -> generate_mulesoft_performance_event
      [] g = "generate_mulesoft_error_event"       -> generate_mulesoft_error_event
      [] g = "generate_mulesoft_uptime_event"      -> generate_mulesoft_uptime_event

\* The endpoints events are posted to, f"{base}/api/{endpoint}", and the
\* handler the Function App routes each to.
Endpoints == {"salesforceloghandler", "mulesoftloghandler", "universalloghandler"}

Route(endpoint) ==
    CASE endpoint = "salesforceloghandler" -> "salesforceLogHandler"
      [] endpoint = "mulesoftloghandler"   -> "mulesoftLogHandler"
      [] endpoint = "universalloghandler"  -> "universalLogHandler"

SimIdle == [pc |-> "start", generator |-> "", event |-> EmptyRec,
            endpoint |-> "", status |-> 0, returned |-> FALSE, exc |-> ""]

\* Events that a caller of send_event passes in without a generator.
CallerEvents ==
    {("foo" :> JStr(s_bar)),
     ("sourceSystem" :> JStr(s_Salesforce)) @@ ("statusCode" :> JNum(200)),
     ("eventType" :> JStr(s_MuleSoft_Error)) @@ ("statusCode" :> JStr(s_503))}

\* event = generator()
GenerateEvent ==
    /\ sim.pc = "start"
    /\ \E g \in Generators : \E event \in Generated(g) :
         sim' = [sim EXCEPT !.pc = "generated", !.generator = g, !.event = event]
    /\ UNCHANGED <<WS_ID, WS_KEY, req, cls, sig, conc, run, suite>>

\* send_event(event, endpoint) called with an event of the caller's own.
CallerEvent ==
    /\ sim.pc = "start"
    /\ \E event \in CallerEvents : sim' = [sim EXCEPT !.pc = "generated", !.event = event]
    /\ UNCHANGED <<WS_ID, WS_KEY, req, cls, sig, conc, run, suite>>

\* send_event, lines 226-234 (test_function_endpoints, lines 56-62):
\* requests.post(url, json=event); the handler of the endpoint runs up to
\* its call of requests.post or to its answer.
SendEvent ==
    /\ sim.pc = "generated"
    /\ req.pc = "idle"
    /\ \E endpoint \in Endpoints, t1 \in Times, t2 \in Times :
         /\ Later(t1, t2)
         /\ req' = RunHandler(Route(endpoint),
                              Arrive(Route(endpoint), JObject(sim.event)), t1, t2)
         /\ sim' = [sim EXCEPT !.pc = "sent", !.endpoint = endpoint]
    /\ UNCHANGED <<WS_ID, WS_KEY, cls, sig, conc, run, suite>>

\* The status the client gets: that of the handler's HttpResponse, or 500
\* from the Functions host when the invocation ended in an exception.
ResponseStatus(r) == IF r.raised # "" THEN 500 ELSE r.status

\* send_event after requests.post returned, lines 236-241: the branch for
\* status 200 prints event['eventType'], which raises KeyError for an event
\* without that key; the except clause of lines 243-245 turns every
\* exception into False.
send_event_result(event, status_code) ==
    IF status_code = 200
    THEN (IF "eventType" \in DOMAIN event THEN TRUE ELSE FALSE)
    ELSE FALSE

\* requests.post returns the response of the endpoint.
ReceiveResponse ==
    /\ sim.pc = "sent"
    /\ req.pc = "done"
    /\ sim' = [sim EXCEPT !.pc = "returned",
                          !.status = ResponseStatus(req),
                          !.returned = send_event_result(sim.event, ResponseStatus(req))]
    /\ UNCHANGED <<WS_ID, WS_KEY, req, cls, sig, conc, run, suite>>

\* requests.post raises (no connection, the 10 s timeout): lines 243-245
\* return False.
SendRaises ==
    /\ sim.pc = "generated"
    /\ \E e \in RequestExceptions : sim' = [sim EXCEPT !.pc = "returned", !.returned = FALSE]
    /\ UNCHANGED <<WS_ID, WS_KEY, req, cls, sig, conc, run, suite>>

\* The next event of the run.
NextEvent ==
    /\ sim.pc = "returned"
    /\ sim' = SimIdle
    /\ req' = Idle
    /\ UNCHANGED <<WS_ID, WS_KEY, cls, sig, conc, run, suite>>

-----------------------------------------------------------------------------
(* run_simulation (src/api_simulator.py, lines 247-299) *)

\* The inputs of run_simulation that are tried: duration_minutes in
\* 0..MaxDuration and events_per_minute in 1..MaxRate.
MaxDuration == 1
MaxRate == 3

\* Time is counted in milliseconds.
Minute == 60000

\* requests.post(..., timeout=10): a send takes between no time and 10 s.
SendTimeout == 10000
SendDelays == {0, SendTimeout}

\* The statuses the function endpoint can answer a POST with.
EndpointStatus == DownstreamStatus \cup {400, 500}

\* What send_event(event, endpoint) can return: its result for a status of
\* the endpoint, or False when requests.post raised.
SendOutcomes(event) ==
    {send_event_result(event, status_code) : status_code \in EndpointStatus} \cup {FALSE}

\* The two families of generators of lines 263-280, each with its endpoint.
Families == {"Salesforce", "MuleSoft"}

event_generators(family) ==
    IF family = "Salesforce"
    THEN {"generate_sf_login_event", "generate_sf_api_event", "generate_sf_data_event"}
    ELSE {"generate_mulesoft_performance_event", "generate_mulesoft_error_event",
          "generate_mulesoft_uptime_event"}

family_endpoint(family) ==
    IF family = "Salesforce" THEN "salesforceloghandler" ELSE "mulesoftloghandler"

RunIdle == [pc |-> "idle", duration_minutes |-> 0, events_per_minute |-> 1,
            now |-> 0, end_time |-> 0, event_count |-> 0, success_count |-> 0,
            event_types |-> [Salesforce |-> 0, MuleSoft |-> 0],
            generator |-> "", endpoint |-> "", success_rate |-> 0, raised |-> ""]

\* Lines 247-259: end_time = datetime.now() + timedelta(minutes=duration_minutes)
\* and the counters set to zero.
run_simulation ==
    /\ run.pc = "idle"
    /\ \E duration_minutes \in 0..MaxDuration, events_per_minute \in 1..MaxRate :
         run' = [run EXCEPT !.pc = "loop",
                            !.duration_minutes = duration_minutes,
                            !.events_per_minute = events_per_minute,
                            !.end_time = run.now + duration_minutes * Minute]
    /\ UNCHANGED <<WS_ID, WS_KEY, req, cls, sig, conc, sim, suite>>

\* One pass of the loop, lines 261-290: a generator of one family is drawn,
\* its event is sent, the counters move and the loop sleeps
\* 60 / events_per_minute seconds.
LoopPass ==
    /\ run.pc = "loop"
    /\ run.now < run.end_time
    /\ \E family \in Families :
       \E generator \in event_generators(family) :
       \E event \in Generated(generator) :
       \E sent \in SendOutcomes(event), delay \in SendDelays :
         run' = [run EXCEPT !.generator = generator,
                            !.endpoint = family_endpoint(family),
                            !.event_types[family] = @ + 1,
                            !.success_count = IF sent THEN @ + 1 ELSE @,
                            !.event_count = @ + 1,
                            !.now = @ + delay + (Minute \div run.events_per_minute)]
    /\ UNCHANGED <<WS_ID, WS_KEY, req, cls, sig, conc, sim, suite>>

\* Lines 292-299 once datetime.now() < end_time is false: the summary prints
\* success_count/event_count*100, which raises ZeroDivisionError when
\* event_count is 0.
Summary ==
    /\ run.pc = "loop"
    /\ ~(run.now < run.end_time)
    /\ run' = IF run.event_count = 0
              THEN [run EXCEPT !.pc = "done", !.raised = "ZeroDivisionError"]
              ELSE [run EXCEPT !.pc = "done",
                               !.success_rate = (run.success_count * 100) \div run.event_count]
    /\ UNCHANGED <<WS_ID, WS_KEY, req, cls, sig, conc, sim, suite>>

-----------------------------------------------------------------------------
(* run_all_tests (src/scripts/test_complete_pipeline.py, lines 273-322) *)

\* The list tests of lines 278-285, by the names of the methods.
tests ==
    <<"test_function_endpoints", "test_event_generation", "test_data_flow",
      "test_performance_load", "test_error_handling", "generate_dashboard_test_data">>

\* What a call test_func() can do: return a true value, return a false
\* value, or raise an Exception.
TestOutcomes == {"True", "False", "Exception"}

NoSummary == [total |-> -1, passed |-> -1, failed |-> -1, success_rate |-> -1]

SuiteIdle == [pc |-> "idle", i |-> 1, ran |-> <<>>, outcomes |-> <<>>,
              passed |-> 0, failed |-> 0, test_results |-> <<>>,
              raised |-> "", summary |-> NoSummary]

\* The loop would end at the first exception if it had no except clause.
AfterTest_NoExcept(s, outcome) ==
    IF outcome = "Exception"
    THEN [s EXCEPT !.pc = "done", !.raised = "Exception",
                   !.ran = Append(@, tests[s.i]), !.outcomes = Append(@, outcome)]
    ELSE [s EXCEPT !.i = @ + 1,
                   !.ran = Append(@, tests[s.i]), !.outcomes = Append(@, outcome),
                   !.passed = IF outcome = "True" THEN @ + 1 ELSE @,
                   !.failed = IF outcome = "False" THEN @ + 1 ELSE @]

\* The body of the loop, lines 291-298, for the test at position s.i.
AfterTest(s, outcome) ==
    [s EXCEPT !.i = @ + 1,
              !.ran = Append(@, tests[s.i]),
              !.outcomes = Append(@, outcome),
              !.passed = IF outcome = "True" THEN @ + 1 ELSE @,
              !.failed = IF outcome = "True" THEN @ ELSE @ + 1,
              !.test_results = IF outcome = "Exception"
                               THEN Append(@, [test |-> tests[s.i], status |-> "FAIL"])
                               ELSE @]

\* Lines 273-288.
run_all_tests ==
    /\ suite.pc = "idle"
    /\ suite' = [suite EXCEPT !.pc = "loop"]
    /\ UNCHANGED <<WS_ID, WS_KEY, req, cls, sig, conc, sim, run>>

\* for test_name, test_func in tests: one test.
RunTest ==
    /\ suite.pc = "loop"
    /\ suite.i <= Len(tests)
    /\ \E outcome \in TestOutcomes : suite' = AfterTest(suite, outcome)
    /\ UNCHANGED <<WS_ID, WS_KEY, req, cls, sig, conc, sim, run>>

\* Lines 300-322: the summary is printed (passed/(passed+failed) without a
\* guard) and the dictionary is returned.
TestSummary ==
    /\ suite.pc = "loop"
    /\ suite.i > Len(tests)
    /\ suite' = IF suite.passed + suite.failed = 0
                THEN [suite EXCEPT !.pc = "done", !.raised = "ZeroDivisionError"]
                ELSE [suite EXCEPT !.pc = "done",
                        !.summary = [total |-> suite.passed + suite.failed,
                                     passed |-> suite.passed,
                                     failed |-> suite.failed,
                                     success_rate |-> (suite.passed * 100)
                                                      \div (suite.passed + suite.failed)]]
    /\ UNCHANGED <<WS_ID, WS_KEY, req, cls, sig, conc, sim, run>>

-----------------------------------------------------------------------------
(* Specifications *)

\* The Function App serving requests.
Init ==
    /\ WS_ID \in WsIdValues
    /\ WS_KEY \in WsKeyValues
    /\ req = Idle
    /\ cls = ClsIdle
    /\ sig = SigIdle
    /\ conc = ConcIdle
    /\ sim = SimIdle
    /\ run = RunIdle
    /\ suite = SuiteIdle

Next ==
    \/ salesforceLogHandler
    \/ mulesoftLogHandler
    \/ universalLogHandler
    \/ PostReturns
    \/ PostRaises
    \/ NextInvocation

Spec == Init /\ [][Next]_vars

\* determine_log_type on every record of ClassifyRecords.
InitClassify ==
    /\ WS_ID = EnvUnset
    /\ WS_KEY = EnvUnset
    /\ req = Idle
    /\ cls \in {[ClsIdle EXCEPT !.event_data = r] : r \in ClassifyRecords}
    /\ sig = SigIdle
    /\ conc = ConcIdle
    /\ sim = SimIdle
    /\ run = RunIdle
    /\ suite = SuiteIdle

NextClassify == Classify

SpecClassify == InitClassify /\ [][NextClassify]_vars

\* The signing steps on every pair of inputs; the second request is built
\* for every workspace and category, the first for one.
InitSign ==
    /\ WS_ID = EnvUnset
    /\ WS_KEY = EnvUnset
    /\ req = Idle
    /\ cls = ClsIdle
    /\ sig \in {[j \in {1, 2} |->
                   IF j = 1
                   THEN [SigIdle[1] EXCEPT !.body = a.body, !.now = a.now, !.key = a.key]
                   ELSE [SigIdle[2] EXCEPT !.body = b.body, !.now = b.now, !.key = b.key,
                                           !.id = t.id, !.log_type = t.log_type]] :
                  a \in SignInputs, b \in SignInputs, t \in SignTargets}
    /\ conc = ConcIdle
    /\ sim = SimIdle
    /\ run = RunIdle
    /\ suite = SuiteIdle

NextSign == \E j \in {1, 2} : Sign(j)

SpecSign == InitSign /\ [][NextSign]_vars

\* The Function App with its handlers running on several threads: the
\* statements of an invocation between two blocking calls touch nothing but
\* its locals and read the two globals, so they are taken in one step.
InitConc ==
    /\ WS_ID \in WsIdValues
    /\ WS_KEY \in WsKeyValues
    /\ req = Idle
    /\ cls = ClsIdle
    /\ sig = SigIdle
    /\ conc = ConcIdle
    /\ sim = SimIdle
    /\ run = RunIdle
    /\ suite = SuiteIdle

NextConc ==
    \E w \in Workers :
        \/ ConcSalesforce(w)
        \/ ConcMulesoft(w)
        \/ ConcUniversal(w)
        \/ ConcPostReturns(w)
        \/ ConcPostRaises(w)
        \/ ConcNextInvocation(w)

SpecConc == InitConc /\ [][NextConc]_vars

\* The simulator posting its events to the Function App.
InitSim ==
    /\ WS_ID \in WsIdValues
    /\ WS_KEY \in WsKeyValues
    /\ req = Idle
    /\ cls = ClsIdle
    /\ sig = SigIdle
    /\ conc = ConcIdle
    /\ sim = SimIdle
    /\ run = RunIdle
    /\ suite = SuiteIdle

NextSim ==
    \/ GenerateEvent
    \/ CallerEvent
    \/ SendEvent
    \/ SendRaises
    \/ PostReturns
    \/ PostRaises
    \/ ReceiveResponse
    \/ NextEvent

SpecSim == InitSim /\ [][NextSim]_vars

\* One call of run_simulation.
InitRun ==
    /\ WS_ID \in WsIdValues
    /\ WS_KEY \in WsKeyValues
    /\ req = Idle
    /\ cls = ClsIdle
    /\ sig = SigIdle
    /\ conc = ConcIdle
    /\ sim = SimIdle
    /\ run = RunIdle
    /\ suite = SuiteIdle

NextRun ==
    \/ run_simulation
    \/ LoopPass
    \/ Summary

SpecRun == InitRun /\ [][NextRun]_vars

\* One call of run_all_tests.
InitSuite ==
    /\ WS_ID \in WsIdValues
    /\ WS_KEY \in WsKeyValues
    /\ req = Idle
    /\ cls = ClsIdle
    /\ sig = SigIdle
    /\ conc = ConcIdle
    /\ sim = SimIdle
    /\ run = RunIdle
    /\ suite = SuiteIdle

NextSuite ==
    \/ run_all_tests
    \/ RunTest
    \/ TestSummary

SpecSuite == InitSuite /\ [][NextSuite]_vars

-----------------------------------------------------------------------------
(* The classifier's decision table, as the specification states it *)

HasStr(d, k) == k \in DOMAIN d /\ d[k].t = "str"
HasNum(d, k) == k \in DOMAIN d /\ d[k].t = "num"

SourceIsMuleSoft(d) == HasStr(d, "sourceSystem") /\ lower(d["sourceSystem"].s) = s_mulesoft

Rule1(d) == \/ SourceIsMuleSoft(d)
            \/ HasStr(d, "eventType") /\ startswith(d["eventType"].s, s_MuleSoft)

Rule2(d) == \/ HasStr(d, "sourceSystem") /\ contains(s_salesforce, lower(d["sourceSystem"].s))
            \/ HasStr(d, "eventType")
               /\ d["eventType"].s \in {s_Login, s_API_Usage, s_Data_Modification}

DecisionTable(d) ==
    IF Rule1(d)
    THEN IF "latency" \in DOMAIN d \/ "responseTime" \in DOMAIN d THEN "MuleSoftPerformance"
         ELSE IF "error" \in DOMAIN d \/ (HasNum(d, "statusCode") /\ d["statusCode"].n >= 400)
         THEN "MuleSoftError"
         ELSE IF "uptime" \in DOMAIN d \/ "availability" \in DOMAIN d THEN "MuleSoftUptime"
         ELSE "MuleSoftGeneral"
    ELSE IF Rule2(d) THEN "SalesforceEvent"
    ELSE "GeneralEvent"

-----------------------------------------------------------------------------
(* Claims *)

\* C1: for every record, determine_log_type returns exactly the category of
\* the first-match decision table (rule 1 with its sub-rules a-d, rule 2,
\* rule 3).
C1_ClassifyMatchesTable ==
    cls.called => cls.result = DecisionTable(cls.event_data)

\* Whenever determine_log_type returns, it returns the category of the table.
ClassifyMatchesTableWhenItReturns ==
    cls.called /\ cls.result \in Categories => cls.result = DecisionTable(cls.event_data)

\* C2: determine_log_type is total: for every record, also one whose
\* sourceSystem or eventType is not a string or whose statusCode is not a
\* number, it returns one of the six categories and never raises.
C2_ClassifyTotal ==
    cls.called => cls.result \in Categories

\* C3, as stated: two signing runs that differ in the body bytes only, or in
\* the timestamp only, or in the key only, yield different signatures.
C3_SignatureCoversBody ==
    sig[1].done /\ sig[2].done =>
        LET a == sig[1].out  b == sig[2].out IN
        /\ (a.body_json # b.body_json /\ a.ts = b.ts /\ a.decoded_key = b.decoded_key
               => a.signature # b.signature)
        /\ (a.ts # b.ts /\ a.body_json = b.body_json /\ a.decoded_key = b.decoded_key
               => a.signature # b.signature)
        /\ (a.decoded_key # b.decoded_key /\ a.body_json = b.body_json /\ a.ts = b.ts
               => a.signature # b.signature)

\* C3, amended: two signing runs that differ in the length of the body only,
\* or in the timestamp only, or in the decoded key only, yield different
\* signatures; bodies of equal length, with the same timestamp and key, yield
\* the same signature.
C3_SignatureCoversLength ==
    sig[1].done /\ sig[2].done =>
        LET a == sig[1].out  b == sig[2].out IN
        /\ (StrLen(a.body_json) # StrLen(b.body_json) /\ a.ts = b.ts
            /\ a.decoded_key = b.decoded_key
               => a.signature # b.signature)
        /\ (a.ts # b.ts /\ a.body_json = b.body_json /\ a.decoded_key = b.decoded_key
               => a.signature # b.signature)
        /\ (a.decoded_key # b.decoded_key /\ a.body_json = b.body_json /\ a.ts = b.ts
               => a.signature # b.signature)
        /\ (StrLen(a.body_json) = StrLen(b.body_json) /\ a.ts = b.ts
            /\ a.decoded_key = b.decoded_key
               => a.signature = b.signature)

\* Two runs with the same timestamp and key whose bodies differ in length.
C3_Witness ==
    /\ sig[1].done /\ sig[2].done
    /\ StrLen(sig[1].out.body_json) # StrLen(sig[2].out.body_json)
    /\ sig[1].out.ts = sig[2].out.ts
    /\ sig[1].out.decoded_key = sig[2].out.decoded_key
    /\ sig[1].out.signature # sig[2].out.signature

CredentialAbsent == Missing(WS_ID) \/ Missing(WS_KEY)

\* C4: with the workspace id or the shared key unset or empty, post_to_law
\* builds no request: it returns (500, "Missing workspace configuration"),
\* computes no signature and calls requests.post not once.
C4_AbsentCredentialRefused ==
    CredentialAbsent =>
        /\ req.pc # "posting"
        /\ ~req.signed
        /\ req.posts = 0
        /\ req.post = NoPost
        /\ (req.pc = "done" /\ req.defaulted /\ req.raised = ""
               => req.code = 500 /\ req.text = "Missing workspace configuration")

C4_Witness ==
    /\ CredentialAbsent
    /\ req.pc = "done"
    /\ req.code = 500
    /\ req.text = "Missing workspace configuration"
    /\ req.posts = 0

EmptyOrUnparseable(inbound) == inbound.kind = "invalid" \/ ~inbound.truthy

\* C5: each handler answers a body that is not JSON, or that is empty (the
\* empty object included), with status 400, and then nothing is defaulted,
\* nothing is classified and nothing is sent to the collection endpoint.
C5_EmptyOrUnparseableIs400 ==
    req.handler \in Handlers /\ EmptyOrUnparseable(req.inbound) =>
        /\ req.pc = "done"
        /\ req.status = 400
        /\ req.raised = ""
        /\ ~req.defaulted /\ DOMAIN req.payload = {}
        /\ ~req.classified /\ req.log_type = ""
        /\ ~req.signed /\ req.posts = 0

\* The empty object was answered with 400.
C5_Witness ==
    /\ req.pc = "done"
    /\ req.inbound.kind = "object" /\ ~req.inbound.truthy
    /\ req.status = 400
    /\ req.posts = 0

ValidPayload(inbound) == inbound.kind # "invalid" /\ inbound.truthy

\* C6: for each handler and every non-empty, parseable payload (a JSON
\* object), the response status is 200 when forwarding succeeded and
\* otherwise the status code that post_to_law returned.
C6_StatusIsPostToLawCode ==
    req.pc = "done" /\ ValidPayload(req.inbound) /\ req.inbound.kind = "object" =>
        /\ req.raised = ""
        /\ req.code # 0
        /\ req.status = req.code
        /\ (req.code = 200 <=> req.ok)

\* Whenever post_to_law returned, the handler answers with its code.
StatusIsPostToLawCodeWhenItReturned ==
    req.pc = "done" /\ req.code # 0 =>
        req.raised = "" /\ req.status = req.code /\ (req.code = 200 <=> req.ok)

\* C7: one inbound request causes at most one call of requests.post, also
\* when that call times out, fails at the network level or is answered with
\* a status outside 2xx.
C7_AtMostOnePost == req.posts <= 1

\* A request whose only POST timed out has been answered.
C7_Witness ==
    req.pc = "done" /\ req.post_exc = "Timeout" /\ req.posts = 1

\* C8: when requests.post raises (a timeout, a network failure), post_to_law
\* raises nothing and returns 500 with an error message, and the handler
\* answers with that status, outside 2xx.
C8_NetworkFailureIsFailedSend ==
    req.post_exc # "" =>
        /\ req.pc = "done"
        /\ req.raised = ""
        /\ req.code = 500
        /\ req.text = "Error posting to Log Analytics: " \o req.post_exc
        /\ req.status = 500 /\ req.status \notin 200..299
        /\ ~req.ok

C8_Witness ==
    req.pc = "done" /\ req.post_exc = "ConnectionError" /\ req.status = 500

\* C9: every record with sourceSystem == "MuleSoft" and a responseTime key is
\* MuleSoftPerformance, whatever else it holds (an error key, a statusCode
\* >= 400, uptime or availability keys, an eventType of any type).
C9_MuleSoftResponseTimeIsPerformance ==
    /\ cls.called
    /\ HasStr(cls.event_data, "sourceSystem")
    /\ cls.event_data["sourceSystem"].s = s_MuleSoft
    /\ "responseTime" \in DOMAIN cls.event_data
    => cls.result = "MuleSoftPerformance"

\* Such a record that also has an error key, statusCode 503, an uptime key
\* and an eventType that is not a string.
C9_Witness ==
    /\ cls.called
    /\ HasStr(cls.event_data, "sourceSystem")
    /\ cls.event_data["sourceSystem"].s = s_MuleSoft
    /\ {"responseTime", "error", "uptime"} \subseteq DOMAIN cls.event_data
    /\ HasNum(cls.event_data, "statusCode") /\ cls.event_data["statusCode"].n = 503
    /\ "eventType" \in DOMAIN cls.event_data /\ cls.event_data["eventType"].t = "null"
    /\ cls.result = "MuleSoftPerformance"

\* C10: every record whose eventType is Login, API_Usage or Data_Modification
\* and whose sourceSystem is absent or any value other than MuleSoft (in any
\* letter case) is SalesforceEvent.
C10_SalesforceEventTypes ==
    /\ cls.called
    /\ HasStr(cls.event_data, "eventType")
    /\ cls.event_data["eventType"].s \in {s_Login, s_API_Usage, s_Data_Modification}
    /\ ~SourceIsMuleSoft(cls.event_data)
    => cls.result = "SalesforceEvent"

\* The same for the records whose sourceSystem, if present, is a string.
SalesforceEventTypesWithStringSource ==
    /\ cls.called
    /\ HasStr(cls.event_data, "eventType")
    /\ cls.event_data["eventType"].s \in {s_Login, s_API_Usage, s_Data_Modification}
    /\ ~SourceIsMuleSoft(cls.event_data)
    /\ ("sourceSystem" \in DOMAIN cls.event_data => HasStr(cls.event_data, "sourceSystem"))
    => cls.result = "SalesforceEvent"

\* C11: two runs of the signing steps whose serialized bodies, x-ms-date
\* texts and keys are identical produce the same signature, and with the
\* same workspace id the same Authorization header, whatever else differs
\* between the runs (the microseconds of the clock reading).
C11_SignatureDeterminism ==
    (/\ sig[1].done /\ sig[2].done
     /\ sig[1].out.body_json = sig[2].out.body_json
     /\ sig[1].out.ts = sig[2].out.ts
     /\ sig[1].key = sig[2].key)
    => /\ sig[1].out.signature = sig[2].out.signature
       /\ \A id \in {s_ws1, s_SAP} :
            Authorization(id, sig[1].out.signature)
              = Authorization(id, sig[2].out.signature)

\* Two finished runs on the same body and key, at clock readings of the same
\* second that differ in their microseconds.
C11_Witness ==
    /\ sig[1].done /\ sig[2].done
    /\ sig[1].body = sig[2].body
    /\ sig[1].key = sig[2].key
    /\ sig[1].now.sec = sig[2].now.sec
    /\ sig[1].now.usec # sig[2].now.usec
    /\ sig[1].out.signature = sig[2].out.signature

\* C12: the string-to-sign of every request that is sent is, in this order
\* and with one newline between neighbours and none at the end: POST, the
\* decimal number of bytes of the body that is sent, application/json,
\* x-ms-date: followed at once by the x-ms-date text, and /api/logs.
C12_StringToSignLayout ==
    req.posts >= 1 =>
        req.out.string_to_hash
          = <<"POST", "\n">> \o Decimal(ByteLen(req.post.data))
            \o <<"\n", "application/json", "\n", "x-ms-date:">> \o req.out.ts
            \o <<"\n", "/api/logs">>

\* A request was sent whose record holds a character outside ASCII, which
\* the body carries as a six-character escape.
C12_Witness ==
    /\ req.posts >= 1
    /\ "eventType" \in DOMAIN req.payload
    /\ req.payload["eventType"] = JStr(s_Cafe)
    /\ \E i \in 1..Len(req.post.data) : req.post.data[i] = escape(c_eacute)
    /\ StrLen(req.post.data) = ByteLen(req.post.data)

\* C13: every request that is sent is self-consistent: its x-ms-date header
\* is the timestamp inside the string-to-sign, its Authorization header is
\* "SharedKey <workspace id>:<signature>" with the signature of that
\* string-to-sign under the decoded key, its body is the serialized record
\* whose length was signed, and its Log-Type header is the category the
\* handler assigned to the record.
C13_RequestSelfConsistent ==
    req.posts >= 1 =>
        /\ req.post.xmsdate = req.out.ts
        /\ req.out.string_to_hash = string_to_hash(req.post.data, req.post.xmsdate)
        /\ req.post.Authorization
             = Authorization(WS_ID.v,
                   b64encode(hmac_sha256(b64decode(WS_KEY.v), req.out.string_to_hash)))
        /\ req.post.data = json_dumps(req.payload)
        /\ req.post.data = req.out.body_json
        /\ req.post.LogType = req.log_type
        /\ req.post.LogType
             = IF req.handler = "salesforceLogHandler" THEN "SalesforceEvent"
               ELSE determine_log_type(req.payload)

\* A request of a classifying handler is in flight, signed at a clock
\* reading other than the first.
C13_Witness ==
    /\ req.pc = "posting"
    /\ req.handler = "universalLogHandler"
    /\ req.post.LogType = "MuleSoftPerformance"
    /\ req.post.xmsdate = strftime([sec |-> 1, usec |-> 0])

\* The handler has called post_to_law with req.payload.
PassedToPostToLaw == req.defaulted /\ req.raised = ""

\* C14 (as stated): every record a handler passes to post_to_law carries
\* both a timestamp and a sourceSystem field.
C14_ForwardedHasBothFields ==
    PassedToPostToLaw => {"timestamp", "sourceSystem"} \subseteq DOMAIN req.payload

\* C14 (amended): every record passed to post_to_law carries a timestamp,
\* the inbound one or else the clock reading; salesforceLogHandler and
\* mulesoftLogHandler also make it carry a sourceSystem, the inbound one or
\* else "Salesforce" / "MuleSoft"; universalLogHandler fills in the timestamp
\* only, so its record has a sourceSystem exactly when the inbound one had.
C14_ForwardedFields ==
    PassedToPostToLaw =>
        LET in == req.inbound.rec
            p  == req.payload
        IN  /\ "timestamp" \in DOMAIN p
            /\ "timestamp" \notin DOMAIN in
                  => \E t \in Times : p["timestamp"] = JStr(isoformat(t))
            /\ req.handler \in {"salesforceLogHandler", "mulesoftLogHandler"}
                  => /\ "sourceSystem" \in DOMAIN p
                     /\ "sourceSystem" \notin DOMAIN in
                           => p["sourceSystem"]
                                = IF req.handler = "salesforceLogHandler"
                                  THEN JStr(s_Salesforce) ELSE JStr(s_MuleSoft)
            /\ req.handler = "universalLogHandler"
                  => ("sourceSystem" \in DOMAIN p <=> "sourceSystem" \in DOMAIN in)

\* universalLogHandler has sent a record that came without timestamp and
\* sourceSystem: it goes out with the timestamp filled in and no
\* sourceSystem.
C14_Witness ==
    /\ req.pc = "posting"
    /\ req.handler = "universalLogHandler"
    /\ DOMAIN req.inbound.rec \cap {"timestamp", "sourceSystem"} = {}
    /\ "timestamp" \in DOMAIN req.payload
    /\ "sourceSystem" \notin DOMAIN req.payload

\* C15: the record a handler passes to post_to_law is the inbound record
\* with at most timestamp and sourceSystem added: every inbound key is
\* still there with its inbound value, and no other key has been added.
C15_OnlyDefaultsAdded ==
    PassedToPostToLaw =>
        LET in == req.inbound.rec
            p  == req.payload
        IN  /\ DOMAIN in \subseteq DOMAIN p
            /\ \A k \in DOMAIN in : p[k] = in[k]
            /\ DOMAIN p \ DOMAIN in \subseteq {"timestamp", "sourceSystem"}

\* mulesoftLogHandler has forwarded a record that came with a timestamp and
\* with a sourceSystem other than its default, and with further keys.
C15_Witness ==
    /\ req.pc = "posting"
    /\ req.handler = "mulesoftLogHandler"
    /\ {"timestamp", "sourceSystem", "statusCode"} \subseteq DOMAIN req.inbound.rec
    /\ req.inbound.rec["sourceSystem"] = JStr(s_Salesforce)
    /\ req.payload = req.inbound.rec

\* What the request in r is when it is handled alone, from its arrival to
\* its answer.
HandledAlone(r) ==
    \E t1 \in ConcTimes, t2 \in ConcTimes :
        /\ Later(t1, t2)
        /\ LET b == RunHandler(r.handler, Arrive(r.handler, r.inbound), t1, t2)
           IN  \/ r = b
               \/ /\ b.pc = "posting"
                  /\ \/ \E status_code \in DownstreamStatus :
                          r = HandlerReturn(b, status_code, "response text")
                     \/ \E e \in RequestExceptions : r = OnRequestException(b, e)

C16_AloneInv == \A w \in Workers : conc[w] = Idle \/ HandledAlone(conc[w])

C16_Step ==
    /\ WS_ID' = WS_ID
    /\ WS_KEY' = WS_KEY
    /\ \A w \in Workers, v \in Workers :
          (w # v /\ conc'[w] # conc[w]) => conc'[v] = conc[v]

\* C16: under every interleaving of requests handled at the same time, the
\* category, the outbound request and the response of each request are
\* those of that request handled alone; a step of one invocation changes
\* nothing of another, and WS_ID and WS_KEY keep their startup values.
C16_Isolation == [](C16_AloneInv) /\ [][C16_Step]_vars

\* One invocation has been answered 200 while another, of a different
\* category, is still waiting for Log Analytics.
C16_Witness ==
    /\ conc["thread-1"].pc = "done"
    /\ conc["thread-1"].status = 200
    /\ conc["thread-1"].log_type = "SalesforceEvent"
    /\ conc["thread-2"].pc = "posting"
    /\ conc["thread-2"].log_type = "MuleSoftPerformance"

\* C17: with the workspace id or the shared key absent, every handler
\* answers a non-empty JSON object with a 5xx response.
C17_AbsentCredentialIs500 ==
    (/\ CredentialAbsent
     /\ req.pc = "done"
     /\ ValidPayload(req.inbound)
     /\ req.inbound.kind = "object")
    => /\ req.raised = ""
       /\ req.status \in 500..599

\* What holds in its place: every such invocation that gets as far as
\* post_to_law is answered 500 with nothing sent, and whatever the outcome
\* the worker is left as it was before the request.
AbsentCredentialIs500WhenClassified ==
    (/\ CredentialAbsent
     /\ req.pc = "done"
     /\ ValidPayload(req.inbound)
     /\ req.raised = "")
    => /\ req.status = 500
       /\ req.posts = 0
       /\ ENABLED NextInvocation

\* C18: determine_log_type leaves the record it is given as it was (no key
\* added, removed or rewritten), and classifying the same record again
\* yields the outcome of the first call.
C18_ClassifierPure ==
    [][/\ cls'.event_data = cls.event_data
       /\ cls.called => cls'.result = cls.result]_vars

\* A record has been classified twice, into a category.
C18_Witness ==
    /\ cls.calls = 2
    /\ cls.result = "MuleSoftError"
    /\ "sourceSystem" \notin DOMAIN cls.event_data

\* C19: every event produced by any of the six generators has the fields
\* eventType, sourceSystem, timestamp and eventId.
C19_RequiredFields ==
    sim.generator \in Generators =>
        {"eventType", "sourceSystem", "timestamp", "eventId"} \subseteq DOMAIN sim.event

\* An uptime event has been generated.
C19_Witness ==
    /\ sim.pc = "generated"
    /\ sim.generator = "generate_mulesoft_uptime_event"
    /\ "availability" \in DOMAIN sim.event

\* C20: with the workspace id and key configured, each endpoint takes every
\* event of the generators as far as the collection endpoint (no 400, no
\* exception, one request sent), and answers 200 when the collection
\* endpoint answered 200.
C20_GeneratedEventsAccepted ==
    (~CredentialAbsent /\ sim.generator \in Generators /\ sim.pc = "sent") =>
        /\ req.raised = ""
        /\ req.posts = 1
        /\ req.post.data = json_dumps(sim.event)
        /\ \/ req.pc = "posting"
           \/ /\ req.pc = "done"
              /\ (req.post_exc = "" /\ req.code = 200) => req.status = 200

\* mulesoftloghandler has answered 200 for an uptime event, which has no
\* statusCode.
C20_Witness ==
    /\ sim.pc = "sent"
    /\ sim.generator = "generate_mulesoft_uptime_event"
    /\ sim.endpoint = "mulesoftloghandler"
    /\ req.pc = "done"
    /\ req.code = 200
    /\ req.status = 200
    /\ req.log_type = "MuleSoftUptime"

MuleSoftCategories ==
    {"MuleSoftPerformance", "MuleSoftError", "MuleSoftUptime", "MuleSoftGeneral"}

\* C21: a record that satisfies the MuleSoft condition of rule 1 and also a
\* Salesforce condition of rule 2 is always classified into one of the four
\* MuleSoft categories.
C21_MuleSoftRuleFirst ==
    (cls.called /\ Rule1(cls.event_data) /\ Rule2(cls.event_data))
    => cls.result \in MuleSoftCategories

\* Whenever determine_log_type returns for such a record, it returns a
\* MuleSoft category: never SalesforceEvent, never GeneralEvent.
MuleSoftRuleFirstWhenItReturns ==
    (cls.called /\ Rule1(cls.event_data) /\ Rule2(cls.event_data)
     /\ cls.result \in Categories)
    => cls.result \in MuleSoftCategories

\* C22: mulesoftLogHandler applies its sourceSystem default before it
\* classifies: every non-empty JSON object without a sourceSystem key is
\* forwarded under one of the four MuleSoft categories, while
\* universalLogHandler classifies the record as it came.
C22_MulesoftDefaultBeforeClassify ==
    /\ (/\ ~CredentialAbsent
        /\ req.handler = "mulesoftLogHandler"
        /\ req.inbound.kind = "object" /\ req.inbound.truthy
        /\ "sourceSystem" \notin DOMAIN req.inbound.rec)
       => /\ req.raised = ""
          /\ req.posts = 1
          /\ req.post.LogType \in MuleSoftCategories
    /\ (req.handler = "universalLogHandler" /\ req.posts = 1)
       => req.post.LogType = determine_log_type(req.inbound.rec)

\* What holds in its place: whenever mulesoftLogHandler forwards such a
\* record, it is under a MuleSoft category.
MulesoftDefaultBeforeClassifyWhenForwarded ==
    /\ (/\ req.handler = "mulesoftLogHandler"
        /\ req.posts = 1
        /\ "sourceSystem" \notin DOMAIN req.inbound.rec)
       => req.post.LogType \in MuleSoftCategories
    /\ (req.handler = "universalLogHandler" /\ req.posts = 1)
       => req.post.LogType = determine_log_type(req.inbound.rec)

\* C23: salesforceLogHandler never classifies: every non-empty JSON object it
\* is given is forwarded, when the credential is configured, with Log-Type
\* SalesforceEvent whatever its fields, and determine_log_type is not called.
C23_SalesforceNeverClassifies ==
    req.handler = "salesforceLogHandler" =>
        /\ ~req.classified
        /\ req.posts >= 1 => req.post.LogType = "SalesforceEvent"
        /\ (~CredentialAbsent /\ req.inbound.kind = "object" /\ req.inbound.truthy)
              => req.posts = 1

\* salesforceLogHandler has forwarded a record whose sourceSystem is MuleSoft
\* and that has a responseTime.
C23_Witness ==
    /\ req.handler = "salesforceLogHandler"
    /\ req.pc = "posting"
    /\ {"sourceSystem", "responseTime"} \subseteq DOMAIN req.payload
    /\ req.payload["sourceSystem"] = JStr(s_MuleSoft)
    /\ req.post.LogType = "SalesforceEvent"

\* The collection endpoint answered the request of this invocation, with
\* the status in req.code.
EndpointAnswered == req.posts = 1 /\ req.post_exc = "" /\ req.code # 0

\* C24: a handler answers 200 if and only if the collection endpoint
\* answered exactly 200; for every other status of the endpoint, 201, 202
\* and 204 included, it answers with that status and the failure message.
C24_OkOnlyForExactly200 ==
    req.pc = "done" =>
        /\ req.status = 200 <=> (EndpointAnswered /\ req.code = 200)
        /\ req.ok <=> req.status = 200
        /\ (EndpointAnswered /\ req.code # 200) => req.status = req.code

\* The collection endpoint answered 202 and the handler answered 202 with
\* the failure message.
C24_Witness ==
    /\ req.pc = "done"
    /\ EndpointAnswered
    /\ req.code = 202
    /\ req.status = 202
    /\ ~req.ok

MuleSoftGenerators ==
    {"generate_mulesoft_performance_event", "generate_mulesoft_error_event",
     "generate_mulesoft_uptime_event"}

\* mulesoftLogHandler has forwarded an event of a MuleSoft generator.
MuleSoftEventForwarded ==
    /\ sim.pc = "sent"
    /\ sim.generator \in MuleSoftGenerators
    /\ sim.endpoint = "mulesoftloghandler"
    /\ req.posts = 1

\* C25: every event of a MuleSoft generator sent to mulesoftLogHandler is
\* forwarded under the category named after its generator.
C25_CategoryNamedAfterGenerator ==
    MuleSoftEventForwarded =>
        req.post.LogType
          = CASE sim.generator = "generate_mulesoft_performance_event" -> "MuleSoftPerformance"
              [] sim.generator = "generate_mulesoft_error_event"       -> "MuleSoftError"
              [] sim.generator = "generate_mulesoft_uptime_event"      -> "MuleSoftUptime"

\* What the code does: the events of generate_mulesoft_performance_event
\* and of generate_mulesoft_error_event both carry a responseTime and are
\* both forwarded as MuleSoftPerformance; those of
\* generate_mulesoft_uptime_event are forwarded as MuleSoftUptime.  No
\* generated event is forwarded as MuleSoftError.
CategoryOfGenerator ==
    /\ MuleSoftEventForwarded =>
         req.post.LogType
           = CASE sim.generator = "generate_mulesoft_performance_event" -> "MuleSoftPerformance"
               [] sim.generator = "generate_mulesoft_error_event"       -> "MuleSoftPerformance"
               [] sim.generator = "generate_mulesoft_uptime_event"      -> "MuleSoftUptime"
    /\ (sim.pc = "sent" /\ sim.generator \in Generators /\ req.posts = 1)
         => req.post.LogType # "MuleSoftError"

\* C26: every invocation of a handler ends by returning a response whose
\* status is 400, 200 or the code post_to_law returned; none ends in an
\* exception, whatever JSON value the body parsed to.
C26_NoUnhandledException ==
    req.pc = "done" =>
        /\ req.raised = ""
        /\ \/ req.status = 400
           \/ req.status = 200
           \/ req.code # 0 /\ req.status = req.code

\* The signature inside an Authorization header.
SignatureOf(authorization) == authorization[Len(authorization)]

\* C27: the signature covers neither the category nor the workspace id: two
\* requests with the same body length, timestamp and key carry the same
\* signature, whatever their Log-Type headers and the workspace ids they
\* are built for.
C27_SignatureIgnoresCategoryAndWorkspace ==
    (/\ sig[1].done /\ sig[2].done
     /\ StrLen(sig[1].post.data) = StrLen(sig[2].post.data)
     /\ sig[1].post.xmsdate = sig[2].post.xmsdate
     /\ sig[1].out.decoded_key = sig[2].out.decoded_key)
    => SignatureOf(sig[1].post.Authorization) = SignatureOf(sig[2].post.Authorization)

\* Two such requests with different Log-Type headers, built for different
\* workspaces: their Authorization headers differ in the workspace id only.
C27_Witness ==
    /\ sig[1].done /\ sig[2].done
    /\ StrLen(sig[1].post.data) = StrLen(sig[2].post.data)
    /\ sig[1].post.xmsdate = sig[2].post.xmsdate
    /\ sig[1].out.decoded_key = sig[2].out.decoded_key
    /\ sig[1].post.LogType # sig[2].post.LogType
    /\ sig[1].post.url # sig[2].post.url
    /\ sig[1].post.Authorization # sig[2].post.Authorization
    /\ SignatureOf(sig[1].post.Authorization) = SignatureOf(sig[2].post.Authorization)

\* C28: send_event returns True if and only if the endpoint answered the
\* POST with status 200, for every event, and no exception leaves it.
C28_TrueIffStatus200 ==
    sim.pc = "returned" =>
        /\ sim.exc = ""
        /\ sim.returned <=> sim.status = 200

\* The same for the events that have an eventType key.
TrueIffStatus200WithEventType ==
    (sim.pc = "returned" /\ "eventType" \in DOMAIN sim.event) =>
        /\ sim.exc = ""
        /\ sim.returned <=> sim.status = 200


\* C29: run_simulation, for every duration_minutes >= 0 and
\* events_per_minute >= 1 and any outcome of the sends, completes its
\* summary without raising, a run of zero events included.
C29_SummaryNeverRaises ==
    run.pc = "done" => run.raised = ""

\* The summary of a run that sent at least one event does not raise, and the
\* counters agree with one another.
SummaryOfNonEmptyRun ==
    (run.pc = "done" /\ run.event_count > 0) =>
        /\ run.raised = ""
        /\ run.success_count <= run.event_count
        /\ run.event_types.Salesforce + run.event_types.MuleSoft = run.event_count

\* The number of positions of a sequence of outcomes that hold one of vals.
CountOf(outcomes, vals) == Cardinality({k \in 1..Len(outcomes) : outcomes[k] \in vals})

\* C30: run_all_tests runs its six tests once each in the listed order; a
\* test that returns False or raises counts as failed and the later tests
\* still run, so that in the end passed + failed = 6 and the total is 6.
C30_SixTestsEachOnce ==
    /\ suite.ran = SubSeq(tests, 1, Len(suite.ran))
    /\ suite.passed = CountOf(suite.outcomes, {"True"})
    /\ suite.failed = CountOf(suite.outcomes, {"False", "Exception"})
    /\ suite.pc = "done" =>
          /\ suite.raised = ""
          /\ suite.ran = tests
          /\ suite.passed + suite.failed = 6
          /\ suite.summary.total = 6
          /\ suite.summary.passed = suite.passed
          /\ suite.summary.failed = suite.failed

\* A finished call in which the second test raised, the third returned
\* False and the last one passed.
C30_Witness ==
    /\ suite.pc = "done"
    /\ suite.outcomes[2] = "Exception"
    /\ suite.outcomes[3] = "False"
    /\ suite.outcomes[6] = "True"
    /\ suite.summary.total = 6

====
